---- MODULE Spec2Model ----
(***************************************************************************)
(* Model of bench.py: the HTTP host benchmark.                             *)
(*                                                                         *)
(*   HostTestReport        aggregation of one host's responses             *)
(*   HostHttpBenchmark     get_response / get_response_list                *)
(*   HttpHostTestService   validate_url, test_host, test_hosts,            *)
(*                         test_hosts_parallel                             *)
(*                                                                         *)
(* Three entry points are modelled, one per value of `mode`:               *)
(*   "host"  a direct call of test_host(host, count)                       *)
(*   "seq"   test_hosts(hosts, count)                                      *)
(*   "par"   test_hosts_parallel(hosts, count, thread_count)               *)
(*                                                                         *)
(* Numbers that are floats in the program are kept exact: a duration in    *)
(* milliseconds x is stored as the integer 1000 * x (so it counts          *)
(* microseconds), +infinity is a separate value, and the average is kept   *)
(* as the fraction the program divides.                                    *)
(***************************************************************************)
EXTENDS Integers, Sequences, FiniteSets, TLC

\* ------------------------------------------------------------------ bounds
MaxHosts == 3
MaxParHosts == 2
MaxCount == 2
MaxParCount == 1
MaxThreads == 2

\* ------------------------------------------------------------- characters
Lower == {"a","b","c","d","e","f","g","h","i","j","k","l","m",
          "n","o","p","q","r","s","t","u","v","w","x","y","z"}
Upper == {"A","B","C","D","E","F","G","H","I","J","K","L","M",
          "N","O","P","Q","R","S","T","U","V","W","X","Y","Z"}
Digit == {"0","1","2","3","4","5","6","7","8","9"}
Letter == Lower \cup Upper
DomainChar == Letter \cup Digit \cup {".", "-"}
Whitespace == {" ", "\t", "\n", "\r", "\f"}

AllIn(s, from, to, set) == \A k \in from..to : s[k] \in set
NoneIn(s, from, to, set) == \A k \in from..to : s[k] \notin set

\* url_pattern: ^(https?)://([a-zA-Z0-9.-]+)(\.[a-zA-Z]{2,})(/[^\s]*)?$
\* re.match anchors at the start; $ matches at the end of the string or just
\* before a newline that ends it.
url_pattern_match(url) ==
    LET len == Len(url)
        Ends == {len} \cup (IF len > 0 /\ url[len] = "\n" THEN {len - 1} ELSE {})
    IN \E n \in Ends : \E a \in {4, 5} :
         /\ a + 3 <= n
         /\ SubSeq(url, 1, a) \in {<<"h","t","t","p">>, <<"h","t","t","p","s">>}
         /\ SubSeq(url, a + 1, a + 3) = <<":", "/", "/">>
         /\ \E b \in (a + 4)..n : \E c \in (b + 3)..n :
              /\ AllIn(url, a + 4, b, DomainChar)
              /\ url[b + 1] = "."
              /\ AllIn(url, b + 2, c, Letter)
              /\ \/ c = n
                 \/ /\ url[c + 1] = "/"
                    /\ NoneIn(url, c + 2, n, Whitespace)

validate_url(url) == url_pattern_match(url)

\* --------------------------------------------------------------- the hosts
\* https://a.co
HostA == <<"h","t","t","p","s",":","/","/","a",".","c","o">>
\* http://b.io/p
HostB == <<"h","t","t","p",":","/","/","b",".","i","o","/","p">>
\* ftp://a.co
HostFtp == <<"f","t","p",":","/","/","a",".","c","o">>
\* https://b_d
HostBad == <<"h","t","t","p","s",":","/","/","b","_","d">>

HostPool == {HostA, HostB, HostFtp, HostBad}
BatchHosts == {HostA, HostB, HostFtp}

\* ---------------------------------------------------------------- numbers
\* A float: +infinity, or the finite value v / 1000.
Inf == [inf |-> TRUE, v |-> 0]
Num(v) == [inf |-> FALSE, v |-> v]
Less(x, y) == IF x.inf THEN FALSE ELSE IF y.inf THEN TRUE ELSE x.v < y.v

\* ----------------------------------------------- requests.get and outcomes
\* What requests.get does: it raises (a timeout, a connection error), or it
\* returns a response with a status code and elapsed, a timedelta, kept as
\* its seconds and microseconds fields.
Timeout == [kind |-> "Timeout"]
ConnectionError == [kind |-> "ConnectionError"]
Response(status, sec, usec) ==
    [kind |-> "Response", status_code |-> status,
     elapsed |-> [seconds |-> sec, microseconds |-> usec]]
None == [kind |-> "None"]

\* The outcomes drawn for a direct call of test_host.
HostOutcomes ==
    {Timeout, ConnectionError,
     Response(200, 0, 10000), Response(200, 0, 20000), Response(200, 1, 500000),
     Response(204, 0, 10000), Response(301, 0, 10000), Response(404, 0, 20000)}

\* The outcomes drawn for each request of a batch.
BatchOutcomes == {Timeout, Response(200, 0, 10000)}

\* get_response: a transport exception becomes None, a response is returned.
get_response(outcome) ==
    IF outcome.kind \in {"Timeout", "ConnectionError"} THEN None ELSE outcome

\* ----------------------------------------------------------- HostTestReport
\* The class attributes every new report starts from.
ReportDefaults(host) ==
    [host |-> host, success |-> 0, failed |-> 0, errors |-> 0,
     min |-> Inf, max |-> Num(0 - 1000), avg |-> [num |-> 0 - 1, den |-> 1]]

\* response.elapsed.microseconds / 1000, in thousandths of a millisecond.
elapsed_time_ms(response) == response.elapsed.microseconds

IsOk(response) == response.status_code = 200
IsFailed(response) == 400 <= response.status_code /\ response.status_code < 600

\* One pass of the loop of __init__ over `response`.
ReportStep(acc, response) ==
    IF response = None
    THEN [acc EXCEPT !.self.errors = @ + 1]
    ELSE IF IsOk(response)
    THEN LET ms == elapsed_time_ms(response)
         IN [self |-> [acc.self EXCEPT
                         !.success = @ + 1,
                         !.max = IF Less(@, Num(ms)) THEN Num(ms) ELSE @,
                         !.min = IF Less(Num(ms), @) THEN Num(ms) ELSE @],
             elapsed_time_sum |-> acc.elapsed_time_sum + ms]
    ELSE IF IsFailed(response)
    THEN [acc EXCEPT !.self.failed = @ + 1]
    ELSE acc

RECURSIVE ReportLoop(_, _)
ReportLoop(acc, response_list) ==
    IF response_list = <<>> THEN acc
    ELSE ReportLoop(ReportStep(acc, Head(response_list)), Tail(response_list))

\* self.avg = elapsed_time_sum / self.success if self.success else 0
Average(elapsed_time_sum, success) ==
    IF success # 0 THEN [num |-> elapsed_time_sum, den |-> success]
    ELSE [num |-> 0, den |-> 1]

HostTestReport(host, response_list) ==
    LET acc == ReportLoop([self |-> ReportDefaults(host), elapsed_time_sum |-> 0],
                          response_list)
    IN [acc.self EXCEPT !.avg = Average(acc.elapsed_time_sum, acc.self.success)]

\* f"{x:.1f}" of a float: "inf" for infinity, else the value rounded to
\* tenths (half to even), given in tenths of a millisecond.
RoundHalfEven(num, den) ==
    LET q == num \div den
        r == num % den
    IN IF 2 * r < den THEN q
       ELSE IF 2 * r > den THEN q + 1
       ELSE IF q % 2 = 0 THEN q ELSE q + 1

Format1f(x) ==
    IF x.inf THEN [text |-> "inf", tenths |-> 0]
    ELSE [text |-> "number", tenths |-> RoundHalfEven(x.v, 100)]

to_string(self) ==
    [host |-> self.host, success |-> self.success, failed |-> self.failed,
     errors |-> self.errors,
     max |-> Format1f(self.max),
     min |-> Format1f(self.min),
     avg |-> [text |-> "number", tenths |-> RoundHalfEven(self.avg.num, 100 * self.avg.den)]]

\* -------------------------------------------------------------------- state
VARIABLES
    mode,          \* "host", "seq" or "par": the entry point called
    hosts,         \* the host list (one host for "host")
    count,         \* requests per host
    thread_count,  \* max_workers of the pool ("par")
    tasks,         \* per host: the call of test_host for it
    reports,       \* the list the batch operations return
    main_pc,       \* where the caller's thread is
    idx            \* the caller's position in hosts

vars == <<mode, hosts, count, thread_count, tasks, reports, main_pc, idx>>

NoResult == [kind |-> "none"]
Raised(what) == [kind |-> "raise", what |-> what]
Returned(value) == [kind |-> "return", value |-> value]

\* A call of test_host that has not begun.
NewTask == [pc |-> "new", issued |-> 0, wire |-> <<>>, responses |-> <<>>,
            result |-> NoResult]

HostLists(pool, n) == UNION {[1..k -> pool] : k \in 0..n}

InitTasks == tasks = [t \in 1..Len(hosts) |-> NewTask]

InitHost ==
    /\ mode = "host"
    /\ hosts \in [1..1 -> HostPool]
    /\ count \in (0 - 1)..(MaxCount + 2)
    /\ thread_count = 1
    /\ InitTasks
    /\ reports = <<>>
    /\ main_pc = "call"
    /\ idx = 1

InitSeq ==
    /\ mode = "seq"
    /\ hosts \in HostLists(BatchHosts, MaxHosts)
    /\ count \in (0 - 1)..MaxCount
    /\ thread_count = 1
    /\ InitTasks
    /\ reports = <<>>
    /\ main_pc = "loop"
    /\ idx = 1

InitPar ==
    /\ mode = "par"
    /\ hosts \in HostLists(BatchHosts, MaxParHosts)
    /\ count \in (0 - 1)..MaxParCount
    /\ thread_count \in 1..MaxThreads
    /\ InitTasks
    /\ reports = <<>>
    /\ main_pc = "submit"
    /\ idx = 1

Tasks == DOMAIN tasks
NetOutcomes == IF mode = "host" THEN HostOutcomes ELSE BatchOutcomes

\* ------------------------------------------------------------- test_host
\* get_response_list, on entry: count <= 0 raises, before any request.
get_response_list_begin(task) ==
    IF count <= 0
    THEN [task EXCEPT !.pc = "done", !.result = Raised("count")]
    ELSE [task EXCEPT !.pc = "loop"]

\* A test_host that benchmarks without validating.
test_host_begin_unvalidated(task, host) == get_response_list_begin(task)

\* test_host, on entry: an invalid host raises, a valid one is benchmarked.
test_host_begin(task, host) ==
    IF validate_url(host)
    THEN get_response_list_begin(task)
    ELSE [task EXCEPT !.pc = "done", !.result = Raised("host")]

\* A loop that runs once too often.
MoreRequestsOffByOne(task) == Len(task.responses) <= count

\* The list comprehension of get_response_list goes on while it holds fewer
\* than count responses.
MoreRequests(task) == Len(task.responses) < count

\* get_response calls requests.get: the request is in flight.
IssueGet(t) ==
    /\ tasks[t].pc = "loop"
    /\ tasks' = [tasks EXCEPT ![t] = [@ EXCEPT !.pc = "inflight", !.issued = @ + 1]]
    /\ UNCHANGED <<mode, hosts, count, thread_count, reports, main_pc, idx>>

\* What one returned request adds to the list being built.
AfterGet(task, outcome) ==
    LET got == [task EXCEPT !.wire = Append(@, outcome),
                            !.responses = Append(@, get_response(outcome))]
    IN [got EXCEPT !.pc = IF MoreRequests(got) THEN "loop" ELSE "aggregate"]

\* requests.get returns or raises; get_response hands its result to the list.
GetReturns(t) ==
    /\ tasks[t].pc = "inflight"
    /\ \E outcome \in NetOutcomes :
         tasks' = [tasks EXCEPT ![t] = AfterGet(@, outcome)]
    /\ UNCHANGED <<mode, hosts, count, thread_count, reports, main_pc, idx>>

\* return HostTestReport(host, responses)
test_host_end(task, host) ==
    [task EXCEPT !.pc = "done",
                 !.result = Returned(HostTestReport(host, task.responses)),
                 !.wire = <<>>, !.responses = <<>>]

Aggregate(t) ==
    /\ tasks[t].pc = "aggregate"
    /\ tasks' = [tasks EXCEPT ![t] = test_host_end(@, hosts[t])]
    /\ UNCHANGED <<mode, hosts, count, thread_count, reports, main_pc, idx>>


\* -------------------------------------------------- test_host, called alone
HostCall ==
    /\ main_pc = "call"
    /\ tasks' = [tasks EXCEPT ![1] = test_host_begin(@, hosts[1])]
    /\ main_pc' = "called"
    /\ UNCHANGED <<mode, hosts, count, thread_count, reports, idx>>

\* The call returns its report, or its exception reaches the caller.
HostReturn ==
    /\ main_pc = "called"
    /\ tasks[1].pc = "done"
    /\ main_pc' = IF tasks[1].result.kind = "return" THEN "returned" ELSE "raised"
    /\ UNCHANGED <<mode, hosts, count, thread_count, tasks, reports, idx>>

NextHost ==
    \/ HostCall
    \/ \E t \in Tasks : IssueGet(t)
    \/ \E t \in Tasks : GetReturns(t)
    \/ \E t \in Tasks : Aggregate(t)
    \/ HostReturn

SpecHost == InitHost /\ [][NextHost]_vars

\* ------------------------------------------------------------- test_hosts
\* for host in hosts: ... self.test_host(host, timeout, count)
SeqCall ==
    /\ main_pc = "loop"
    /\ idx <= Len(hosts)
    /\ tasks[idx].pc = "new"
    /\ tasks' = [tasks EXCEPT ![idx] = test_host_begin(@, hosts[idx])]
    /\ UNCHANGED <<mode, hosts, count, thread_count, reports, main_pc, idx>>

\* reports.append(<the report test_host returned>)
SeqAppend ==
    /\ main_pc = "loop"
    /\ idx <= Len(hosts)
    /\ tasks[idx].pc = "done"
    /\ tasks[idx].result.kind = "return"
    /\ reports' = Append(reports, tasks[idx].result.value)
    /\ tasks' = [tasks EXCEPT ![idx].pc = "collected"]
    /\ idx' = idx + 1
    /\ UNCHANGED <<mode, hosts, count, thread_count, main_pc>>

\* A handler that throws away what was collected.
test_hosts_except_discard(collected) == <<>>

\* The reports test_hosts is left with when the loop is ended by an exception.
test_hosts_except(collected) == collected

\* except Exception as e: print(...); then return reports
SeqExcept ==
    /\ main_pc = "loop"
    /\ idx <= Len(hosts)
    /\ tasks[idx].pc = "done"
    /\ tasks[idx].result.kind = "raise"
    /\ reports' = test_hosts_except(reports)
    /\ tasks' = [tasks EXCEPT ![idx].pc = "collected"]
    /\ main_pc' = "returned"
    /\ UNCHANGED <<mode, hosts, count, thread_count, idx>>

\* The loop is over: return reports
SeqReturn ==
    /\ main_pc = "loop"
    /\ idx > Len(hosts)
    /\ main_pc' = "returned"
    /\ UNCHANGED <<mode, hosts, count, thread_count, tasks, reports, idx>>

NextSeq ==
    \/ SeqCall
    \/ \E t \in Tasks : IssueGet(t)
    \/ \E t \in Tasks : GetReturns(t)
    \/ \E t \in Tasks : Aggregate(t)
    \/ SeqAppend
    \/ SeqExcept
    \/ SeqReturn

SpecSeq == InitSeq /\ [][NextSeq]_vars

\* ---------------------------------------------------- test_hosts_parallel
\* executor.submit(self.test_host, host, timeout, count), for each host
Submit ==
    /\ main_pc = "submit"
    /\ idx <= Len(hosts)
    /\ tasks' = [tasks EXCEPT ![idx].pc = "queued"]
    /\ idx' = idx + 1
    /\ UNCHANGED <<mode, hosts, count, thread_count, reports, main_pc>>

\* Every host is submitted: for future in as_completed(futures)
SubmitDone ==
    /\ main_pc = "submit"
    /\ idx > Len(hosts)
    /\ main_pc' = "collect"
    /\ UNCHANGED <<mode, hosts, count, thread_count, tasks, reports, idx>>

Running == {t \in Tasks : tasks[t].pc \in {"loop", "inflight", "aggregate"}}
InFlight == {t \in Tasks : tasks[t].pc = "inflight"}

\* A pool that starts a thread for every task.
WorkerAlwaysAvailable == TRUE

\* ThreadPoolExecutor(max_workers=thread_count): a worker thread runs one
\* task at a time, and there are at most thread_count of them.
WorkerAvailable == Cardinality(Running) < thread_count

\* The work queue is first in, first out.
NextQueued(t) ==
    /\ tasks[t].pc = "queued"
    /\ \A u \in Tasks : tasks[u].pc = "queued" => t <= u

\* A free worker takes the next task of the queue and begins test_host.
WorkerStart(t) ==
    /\ mode = "par"
    /\ NextQueued(t)
    /\ WorkerAvailable
    /\ tasks' = [tasks EXCEPT ![t] = test_host_begin(@, hosts[t])]
    /\ UNCHANGED <<mode, hosts, count, thread_count, reports, main_pc, idx>>

\* A collector that a failed future resets.
collect_result_reset(collected, result) ==
    IF result.kind = "return" THEN Append(collected, result.value) ELSE <<>>

\* try: reports.append(future.result())  except Exception as e: print(...)
collect_result(collected, result) ==
    IF result.kind = "return" THEN Append(collected, result.value) ELSE collected

\* as_completed yields a finished future; its result is collected.
Collect(t) ==
    /\ main_pc = "collect"
    /\ tasks[t].pc = "done"
    /\ reports' = collect_result(reports, tasks[t].result)
    /\ tasks' = [tasks EXCEPT ![t].pc = "collected"]
    /\ UNCHANGED <<mode, hosts, count, thread_count, main_pc, idx>>

\* A collector that stops at the first finished future.
FirstCollected == \E t \in DOMAIN tasks : tasks[t].pc = "collected"

\* as_completed is exhausted once every future has been yielded.
AllCollected == \A t \in Tasks : tasks[t].pc = "collected"

\* The with block ends (the pool is shut down, waiting for its workers) and
\* reports is returned.
ParReturn ==
    /\ main_pc = "collect"
    /\ AllCollected
    /\ main_pc' = "returned"
    /\ UNCHANGED <<mode, hosts, count, thread_count, tasks, reports, idx>>

NextPar ==
    \/ Submit
    \/ SubmitDone
    \/ \E t \in Tasks : WorkerStart(t)
    \/ \E t \in Tasks : IssueGet(t)
    \/ \E t \in Tasks : GetReturns(t)
    \/ \E t \in Tasks : Aggregate(t)
    \/ \E t \in Tasks : Collect(t)
    \/ ParReturn

SpecPar == InitPar /\ [][NextPar]_vars

\* Every worker thread is scheduled, every request returns or times out, and
\* the caller's thread runs.
FairSpecPar == SpecPar /\ WF_vars(NextPar)

\* =================================================================== claims
\* The hosts of the pool that validate_url accepts.
ValidPool == {h \in HostPool : validate_url(h)}

Valid(t) == hosts[t] \in ValidPool
InvalidAt == {t \in Tasks : ~Valid(t)}
Occurrences(seq, x) == Cardinality({k \in 1..Len(seq) : seq[k] = x})
ReportHosts == [k \in 1..Len(reports) |-> reports[k].host]
Min(S) == CHOOSE x \in S : \A y \in S : x <= y
Max(S) == CHOOSE x \in S : \A y \in S : y <= x

\* The positions of a response list that hold an error, a response with a
\* status in [lo, hi).
ErrorsOf(rs) == {k \in 1..Len(rs) : rs[k] = None}
StatusIn(rs, lo, hi) ==
    {k \in 1..Len(rs) : rs[k] # None /\ lo <= rs[k].status_code /\ rs[k].status_code < hi}

RECURSIVE SumOver(_, _, _)
SumOver(F(_), rs, S) ==
    IF S = {} THEN 0
    ELSE LET k == CHOOSE x \in S : TRUE IN F(rs[k]) + SumOver(F, rs, S \ {k})

\* The full duration of a response, in thousandths of a millisecond.
FullElapsed(response) ==
    response.elapsed.seconds * 1000000 + response.elapsed.microseconds

\* The step in which test_host builds the report of task t from its responses.
Builds(t) == tasks[t].pc = "aggregate" /\ tasks'[t].pc = "done"

\* ---- C1 (SpecPar): when test_hosts_parallel returns (count >= 1), the batch
\* holds exactly one report per occurrence of a valid host in the input and
\* none for a host that fails validation, whatever the interleaving.
C1_ParallelIsolation ==
    (mode = "par" /\ main_pc = "returned" /\ count >= 1) =>
        /\ \A h \in BatchHosts :
             Occurrences(ReportHosts, h) =
                 IF h \in ValidPool THEN Occurrences(hosts, h) ELSE 0
        /\ Len(reports) = Cardinality(Tasks \ InvalidAt)

\* An invalid host was submitted before a valid one, and the valid one's
\* report is in the returned batch.
C1_Witness ==
    /\ mode = "par" /\ main_pc = "returned" /\ count >= 1
    /\ Len(hosts) = 2 /\ ~Valid(1) /\ Valid(2)
    /\ Len(reports) = 1

\* ---- C2, as stated (SpecSeq): whenever the host list holds a host that
\* fails validation, test_hosts returns an empty batch.
C2_SeqDiscardsAll ==
    (mode = "seq" /\ main_pc = "returned" /\ InvalidAt # {}) => reports = <<>>

\* ---- C2, amended (SpecSeq): with count >= 1 and a host that fails
\* validation in the list, test_hosts returns exactly the reports of the hosts
\* before the first invalid one, in input order; the invalid host and every
\* later host have no report.
C2_SeqKeepsPrefix ==
    (mode = "seq" /\ main_pc = "returned" /\ count >= 1 /\ InvalidAt # {}) =>
        /\ Len(reports) = Min(InvalidAt) - 1
        /\ \A k \in 1..Len(reports) : reports[k].host = hosts[k]

\* Two hosts were tested before the invalid third one, and test_hosts has
\* returned.
C2_Witness ==
    /\ mode = "seq" /\ main_pc = "returned" /\ count >= 1
    /\ Len(hosts) = 3 /\ InvalidAt = {3}
    /\ Len(reports) = 2

\* ---- C3 (SpecHost): every report test_host returns has
\* success + failed + errors = count.
C3_BucketsSumToCount ==
    \A t \in Tasks :
        tasks[t].result.kind = "return" =>
            LET r == tasks[t].result.value
            IN r.success + r.failed + r.errors = count

\* ---- C4 (SpecPar): the number of requests in flight, over all hosts, never
\* exceeds thread_count.
C4_InFlightBounded == Cardinality(InFlight) <= thread_count

\* Two workers each have a request in flight.
C4_Witness ==
    /\ mode = "par" /\ thread_count = 2
    /\ Cardinality(InFlight) = 2

\* ---- C5 (SpecHost): the report counts every error in errors, every response
\* with a status in [200, 300) in success and every response with a status in
\* [400, 600) in failed, and only the [200, 300) responses contribute latency.
C5_Classification ==
    [][\A t \in Tasks :
         Builds(t) =>
            LET rs == tasks[t].responses
                r == tasks'[t].result.value
                ok == StatusIn(rs, 200, 300)
            IN /\ r.errors = Cardinality(ErrorsOf(rs))
               /\ r.success = Cardinality(ok)
               /\ r.failed = Cardinality(StatusIn(rs, 400, 600))
               /\ r.avg.num = SumOver(elapsed_time_ms, rs, ok)]_vars

\* ---- C6 (SpecHost): when the report counts a success, avg is the sum of the
\* full durations of the responses counted as successes divided by their
\* number, and min and max are the smallest and the largest of those durations.
C6_LatencyStatistics ==
    [][\A t \in Tasks :
         Builds(t) =>
            LET rs == tasks[t].responses
                r == tasks'[t].result.value
                ok == {k \in 1..Len(rs) : rs[k] # None /\ IsOk(rs[k])}
                full == {FullElapsed(rs[k]) : k \in ok}
            IN r.success >= 1 =>
                 /\ r.avg.num * Cardinality(ok) = SumOver(FullElapsed, rs, ok) * r.avg.den
                 /\ r.min = Num(Min(full))
                 /\ r.max = Num(Max(full))]_vars

\* ---- C7 (SpecHost): a report without a success has avg = 0, and neither
\* +infinity nor -1 is stored in, or rendered from, its min and max.
C7_NoSentinelWithoutSuccess ==
    \A t \in Tasks :
        (tasks[t].result.kind = "return" /\ tasks[t].result.value.success = 0) =>
            LET r == tasks[t].result.value
                Sentinels == {Inf, Num(0 - 1000)}
            IN /\ r.avg.num = 0
               /\ r.min \notin Sentinels
               /\ r.max \notin Sentinels
               /\ to_string(r).min.text # "inf"
               /\ to_string(r).max # [text |-> "number", tenths |-> 0 - 10]

\* ---- C8 (SpecHost): get_response_list with count <= 0 raises before any
\* request; with count >= 1 it issues its requests one at a time, exactly
\* count of them, and returns count outcomes in request order, a request that
\* raised giving None at its position.
C8_ResponseList ==
    \A t \in Tasks :
        LET k == tasks[t]
            pending == IF k.pc = "inflight" THEN 1 ELSE 0
        IN /\ count <= 0 =>
                /\ k.issued = 0
                /\ k.pc \notin {"loop", "inflight", "aggregate"}
                /\ k.result.kind # "return"
           /\ k.pc \in {"loop", "inflight"} =>
                /\ k.issued = Len(k.responses) + pending
                /\ k.issued <= count
                /\ Len(k.responses) < count
           /\ k.pc = "aggregate" =>
                /\ Len(k.responses) = count
                /\ k.issued = count
           /\ k.result.kind = "return" => k.issued = count
           /\ Len(k.wire) = Len(k.responses)
           /\ \A i \in 1..Len(k.responses) :
                k.responses[i] =
                    IF k.wire[i] \in {Timeout, ConnectionError} THEN None
                    ELSE k.wire[i]

\* The first request timed out, and the list still holds count = 2 outcomes,
\* the second one a response.
C8_Witness ==
    /\ mode = "host" /\ count = 2
    /\ tasks[1].pc = "aggregate"
    /\ tasks[1].wire[1] = Timeout
    /\ tasks[1].responses = <<None, Response(200, 0, 10000)>>

\* ---- C9 (SpecSeq): in test_hosts, a host gets its first request only after
\* every earlier host has had all count requests answered and its report
\* collected; no request goes to a host that fails validation or that comes
\* after one; the reports are in the order of their hosts.
C9_SeqOrder ==
    mode = "seq" =>
        /\ \A i, j \in Tasks :
             (i < j /\ tasks[j].issued > 0) =>
                 /\ tasks[i].pc = "collected"
                 /\ tasks[i].issued = count
                 /\ tasks[i].result.kind = "return"
        /\ \A t \in Tasks :
             (\E i \in InvalidAt : i <= t) => tasks[t].issued = 0
        /\ Len(reports) <= Len(hosts)
        /\ \A k \in 1..Len(reports) : reports[k].host = hosts[k]
        /\ Cardinality(InFlight) <= 1

\* The second host has a request in flight after the first host's two, and an
\* invalid host follows.
C9_Witness ==
    /\ mode = "seq" /\ count = 2
    /\ Len(hosts) = 3 /\ InvalidAt = {3}
    /\ hosts[1] # hosts[2]
    /\ tasks[2].pc = "inflight" /\ tasks[2].issued = 2
    /\ Len(reports) = 1

\* What holds of test_hosts_parallel once it has returned.
ParQuiescent ==
    /\ InFlight = {}
    /\ \A t \in Tasks :
         /\ tasks[t].pc = "collected"
         /\ (Valid(t) /\ count >= 1) => tasks[t].issued = count
    /\ Len(reports) = Cardinality({t \in Tasks : tasks[t].result.kind = "return"})

\* ---- C10 (FairSpecPar): test_hosts_parallel returns, and when it has
\* returned no request is in flight, every valid host has had count requests
\* and every task's result has been collected, once.
C10_ParTerminates ==
    /\ <>(main_pc = "returned")
    /\ [](main_pc = "returned" => ParQuiescent)

\* It has returned after two workers ran a valid and an invalid host.
C10_Witness ==
    /\ mode = "par" /\ main_pc = "returned"
    /\ thread_count = 2 /\ count = 1
    /\ Len(hosts) = 2 /\ Valid(1) /\ ~Valid(2)
    /\ tasks[1].issued = 1 /\ tasks[2].issued = 0
    /\ Len(reports) = 1 /\ reports[1].success = 1

====
